---- MODULE Spec2Model ----
(***************************************************************************)
(* A model of the limit order book of orderbook.go: the Order and Limit    *)
(* structs live in two heaps (sequences indexed by identity), the          *)
(* OrderBook holds the two level slices and the two price maps.  Sizes and *)
(* prices are float64 in the source; the model draws them from small       *)
(* ranges of integers, on which the float operations used (+, -, <, >=,    *)
(* ==) are exact.                                                          *)
(***************************************************************************)
EXTENDS Integers, Sequences, FiniteSets, TLC

\* Bounds of the model.
MaxOrders == 3
MaxSize == 2

\* The nil pointer (Order.Limit, a missing map entry).
Nil == 0

\* The inputs of the calls.  Two prices; orders of the smallest and of the
\* largest size (fills leave the sizes in between); two instants at which
\* NewOrder reads the clock (Less only compares them).
Prices == {100, 101}
Sizes == {1, MaxSize}
Stamps == {1, 2}

VARIABLES
    order,      \* heap of Order structs, by identity: [Size, Bid, Limit, Timestamp]
    limit,      \* heap of Limit structs, by identity: [Price, Orders, TotalVolume]
    asks,       \* OrderBook.asks: sequence of Limit identities
    bids,       \* OrderBook.bids
    AskLimits,  \* OrderBook.AskLimits: price -> Limit identity or Nil
    BidLimits,  \* OrderBook.BidLimits
    matches,    \* the []Match the last PlaceMarketOrder returned
    panicked,   \* "" while the program runs, else the panic that ended it
    budget      \* how many orders the caller creates at most

vars == <<order, limit, asks, bids, AskLimits, BidLimits, matches, panicked, budget>>

\* The part of the state the Go objects hold, as one record the operators
\* below transform.
Book == [order |-> order, limit |-> limit, asks |-> asks, bids |-> bids,
         AskLimits |-> AskLimits, BidLimits |-> BidLimits]

Range(s) == {s[i] : i \in 1..Len(s)}

----------------------------------------------------------------------------
\* sort.Sort: the result is some permutation in the order of Less; the sort
\* is not stable, so elements that compare equal come out in any order.

\* Orders.Less: by Timestamp.
RECURSIVE SortedOrders(_, _)
SortedOrders(ord, S) ==
    IF S = {} THEN {<<>>}
    ELSE UNION {{<<x>> \o p : p \in SortedOrders(ord, S \ {x})} :
                x \in {y \in S : \A z \in S : ord[y].Timestamp <= ord[z].Timestamp}}

\* ByBestAsk.Less: ascending Price.
ByBestAsk(lim, i, j) == lim[i].Price < lim[j].Price

\* ByBestBid.Less: descending Price.
ByBestBid(lim, i, j) == lim[i].Price > lim[j].Price

RECURSIVE SortedLimits(_, _, _)
SortedLimits(lim, S, bidSide) ==
    IF S = {} THEN {<<>>}
    ELSE UNION {{<<x>> \o p : p \in SortedLimits(lim, S \ {x}, bidSide)} :
                x \in {y \in S : \A z \in S :
                          IF bidSide THEN ~ByBestBid(lim, z, y)
                                     ELSE ~ByBestAsk(lim, z, y)}}

\* The elements of seq s that are in set R, in the order of seq tb.
Pick(tb, R) ==
    LET In(x) == x \in R IN SelectSeq(tb, In)

----------------------------------------------------------------------------
\* Order

\* NewOrder; t is what time.Now().UnixNano() returns.
NewOrder(bid, size, t) ==
    [Size |-> size, Bid |-> bid, Limit |-> Nil, Timestamp |-> t]

isFilled(b, o) == b.order[o].Size = 0

\* NewLimit
NewLimit(price) == [Price |-> price, Orders |-> <<>>, TotalVolume |-> 0]

\* Limit.AddOrder that forgets the volume.
AddOrder_NoVolume(b, l, o) ==
    [b EXCEPT !.order[o].Limit = l,
              !.limit[l].Orders = Append(@, o)]

\* Limit.AddOrder
AddOrder(b, l, o) ==
    [b EXCEPT !.order[o].Limit = l,
              !.limit[l].Orders = Append(@, o),
              !.limit[l].TotalVolume = @ + b.order[o].Size]

\* The loop of Limit.DeleteOrder: swap with the last element and truncate,
\* while i keeps counting against the shrinking length.  os is l.Orders,
\* i is 1-based.
RECURSIVE DeleteLoop(_, _, _)
DeleteLoop(os, i, o) ==
    IF i > Len(os) THEN os
    ELSE IF os[i] = o
         THEN DeleteLoop(SubSeq([os EXCEPT ![i] = os[Len(os)]], 1, Len(os) - 1), i + 1, o)
         ELSE DeleteLoop(os, i + 1, o)

\* Limit.DeleteOrder that leaves o.Limit set.
DeleteOrder_KeepsLimit(b, l, o, tb) ==
    LET os == DeleteLoop(b.limit[l].Orders, 1, o)
    IN [b EXCEPT !.limit[l].Orders = Pick(tb, Range(os)),
                 !.limit[l].TotalVolume = @ - b.order[o].Size]

\* Limit.DeleteOrder on a non-nil receiver.  tb decides the outcome of the
\* unstable sort: an ordering, respecting Timestamp, of a set of orders that
\* holds those of the level.
DeleteOrder(b, l, o, tb) ==
    LET os == DeleteLoop(b.limit[l].Orders, 1, o)
    IN [b EXCEPT !.order[o].Limit = Nil,
                 !.limit[l].Orders = Pick(tb, Range(os)),
                 !.limit[l].TotalVolume = @ - b.order[o].Size]

----------------------------------------------------------------------------
\* Limit.fillOrder that takes the whole resting order whatever the incoming
\* order still needs.
fillOrder_WholeResting(b, l, a, o) ==
    LET bid == IF b.order[a].Bid THEN a ELSE o
        ask == IF b.order[a].Bid THEN o ELSE a
        sa  == b.order[a].Size
        so  == b.order[o].Size
    IN [book  |-> [b EXCEPT !.order[o].Size = so - sa, !.order[a].Size = 0],
        match |-> [Ask |-> ask, Bid |-> bid, SizeFilled |-> sa,
                   Price |-> b.limit[l].Price]]

\* Limit.fillOrder that assigns bid and ask from the wrong branch of a.Bid.
fillOrder_SwappedSides(b, l, a, o) ==
    LET bid == IF b.order[a].Bid THEN o ELSE a
        ask == IF b.order[a].Bid THEN a ELSE o
        sa  == b.order[a].Size
        so  == b.order[o].Size
    IN IF sa >= so
       THEN [book  |-> [b EXCEPT !.order[a].Size = sa - so, !.order[o].Size = 0],
             match |-> [Ask |-> ask, Bid |-> bid, SizeFilled |-> so,
                        Price |-> b.limit[l].Price]]
       ELSE [book  |-> [b EXCEPT !.order[o].Size = so - sa, !.order[a].Size = 0],
             match |-> [Ask |-> ask, Bid |-> bid, SizeFilled |-> sa,
                        Price |-> b.limit[l].Price]]

\* Limit.fillOrder that leaves the incoming order's size alone when the
\* resting order is the smaller one.
fillOrder_IncomingKept(b, l, a, o) ==
    LET bid == IF b.order[a].Bid THEN a ELSE o
        ask == IF b.order[a].Bid THEN o ELSE a
        sa  == b.order[a].Size
        so  == b.order[o].Size
    IN IF sa >= so
       THEN [book  |-> [b EXCEPT !.order[a].Size = sa - so, !.order[o].Size = 0],
             match |-> [Ask |-> ask, Bid |-> bid, SizeFilled |-> so,
                        Price |-> b.limit[l].Price]]
       ELSE [book  |-> [b EXCEPT !.order[a].Size = 0],
             match |-> [Ask |-> ask, Bid |-> bid, SizeFilled |-> sa,
                        Price |-> b.limit[l].Price]]

\* Limit.fillOrder: the book after the pairing of resting order a with
\* incoming order b in level l, and the Match.
fillOrder(b, l, a, o) ==
    LET bid == IF b.order[a].Bid THEN a ELSE o
        ask == IF b.order[a].Bid THEN o ELSE a
        sa  == b.order[a].Size
        so  == b.order[o].Size
    IN IF sa >= so
       THEN [book  |-> [b EXCEPT !.order[a].Size = sa - so, !.order[o].Size = 0],
             match |-> [Ask |-> ask, Bid |-> bid, SizeFilled |-> so,
                        Price |-> b.limit[l].Price]]
       ELSE [book  |-> [b EXCEPT !.order[o].Size = so - sa, !.order[a].Size = 0],
             match |-> [Ask |-> ask, Bid |-> bid, SizeFilled |-> sa,
                        Price |-> b.limit[l].Price]]

\* The first loop of Limit.Fill, over os, the slice l.Orders as it was when
\* the range statement started.
RECURSIVE FillLoop(_, _, _, _, _, _, _)
FillLoop(b, l, os, i, o, ms, del) ==
    IF i > Len(os)
    THEN [book |-> b, matches |-> ms, ordersToDelete |-> del]
    ELSE LET r    == fillOrder(b, l, os[i], o)
             b1   == [r.book EXCEPT !.limit[l].TotalVolume = @ - r.match.SizeFilled]
             ms1  == Append(ms, r.match)
             del1 == IF isFilled(b1, os[i]) THEN Append(del, os[i]) ELSE del
         IN IF isFilled(b1, o)
            THEN [book |-> b1, matches |-> ms1, ordersToDelete |-> del1]
            ELSE FillLoop(b1, l, os, i + 1, o, ms1, del1)

\* The second loop of Limit.Fill, left out.
DeleteAll_Skipped(b, l, del, i, tb) == b

\* The second loop of Limit.Fill.
RECURSIVE DeleteAll(_, _, _, _, _)
DeleteAll(b, l, del, i, tb) ==
    IF i > Len(del) THEN b
    ELSE DeleteAll(DeleteOrder(b, l, del[i], tb), l, del, i + 1, tb)

\* Limit.Fill
Fill(b, l, o, tb) ==
    LET r == FillLoop(b, l, b.limit[l].Orders, 1, o, <<>>, <<>>)
    IN [book    |-> DeleteAll(r.book, l, r.ordersToDelete, 1, tb),
        matches |-> r.matches]

----------------------------------------------------------------------------
\* OrderBook

NewOrderBook ==
    [asks |-> <<>>, bids |-> <<>>,
     AskLimits |-> [p \in Prices |-> Nil], BidLimits |-> [p \in Prices |-> Nil]]

RECURSIVE SumVolume(_, _, _)
SumVolume(lim, s, i) ==
    IF i > Len(s) THEN 0 ELSE lim[s[i]].TotalVolume + SumVolume(lim, s, i + 1)

BidTotalVolume(b) == SumVolume(b.limit, b.bids, 1)

AskTotalVolume(b) == SumVolume(b.limit, b.asks, 1)

\* The loop of OrderBook.clearLimit on a slice of length n over array arr:
\* swap with the last element and truncate.
RECURSIVE ClearLoop(_, _, _, _)
ClearLoop(arr, n, i, l) ==
    IF i > n THEN [arr |-> arr, n |-> n]
    ELSE IF arr[i] = l
         THEN ClearLoop([arr EXCEPT ![i] = arr[n]], n - 1, i + 1, l)
         ELSE ClearLoop(arr, n, i + 1, l)

\* OrderBook.clearLimit
clearLimit(b, bid, l) ==
    IF bid
    THEN LET r == ClearLoop(b.bids, Len(b.bids), 1, l)
         IN [b EXCEPT !.BidLimits[b.limit[l].Price] = Nil,
                      !.bids = SubSeq(r.arr, 1, r.n)]
    ELSE LET r == ClearLoop(b.asks, Len(b.asks), 1, l)
         IN [b EXCEPT !.AskLimits[b.limit[l].Price] = Nil,
                      !.asks = SubSeq(r.arr, 1, r.n)]

\* OrderBook.Asks / OrderBook.Bids: the possible outcomes of the in-place sort.
Asks(b) == SortedLimits(b.limit, Range(b.asks), FALSE)

Bids(b) == SortedLimits(b.limit, Range(b.bids), TRUE)

\* The range loop of PlaceMarketOrder that stops after the first level.
Walk_FirstLevel(b, arr, k, o, ms, tb) ==
    IF Len(arr) = 0 THEN [book |-> b, matches |-> ms]
    ELSE LET l  == arr[1]
             f  == Fill(b, l, o, tb)
             b1 == IF Len(f.book.limit[l].Orders) = 0
                   THEN clearLimit(f.book, TRUE, l) ELSE f.book
         IN [book |-> b1, matches |-> ms \o f.matches]

\* The range loop of OrderBook.PlaceMarketOrder (either branch; both call
\* clearLimit(true, limit)).  arr is the array the range statement walks: its
\* length was fixed when the loop started, its elements are read as the loop
\* reaches them.  For a market ask it is the array of ob.bids, which
\* clearLimit writes to; every write lands inside the shortened slice, so
\* the array is the new ob.bids followed by what was behind it.
RECURSIVE Walk(_, _, _, _, _, _)
Walk(b, arr, k, o, ms, tb) ==
    IF k > Len(arr) THEN [book |-> b, matches |-> ms]
    ELSE LET l    == arr[k]
             f    == Fill(b, l, o, tb)
             b1   == IF Len(f.book.limit[l].Orders) = 0
                     THEN clearLimit(f.book, TRUE, l)
                     ELSE f.book
             arr1 == IF b.order[o].Bid THEN arr
                     ELSE b1.bids \o SubSeq(arr, Len(b1.bids) + 1, Len(arr))
         IN Walk(b1, arr1, k + 1, o, ms \o f.matches, tb)

\* The volume check of PlaceMarketOrder reading the order's own side.
NotEnoughVolume_OwnSide(b, o) ==
    IF b.order[o].Bid THEN b.order[o].Size > BidTotalVolume(b)
                      ELSE b.order[o].Size > AskTotalVolume(b)

\* Whether OrderBook.PlaceMarketOrder panics on order o.
NotEnoughVolume(b, o) ==
    IF b.order[o].Bid THEN b.order[o].Size > AskTotalVolume(b)
                      ELSE b.order[o].Size > BidTotalVolume(b)

\* OrderBook.PlaceMarketOrder past the volume check; sorted is the outcome of
\* ob.Asks() / ob.Bids().
PlaceMarket(b, o, sorted, tb) ==
    IF b.order[o].Bid
    THEN Walk([b EXCEPT !.asks = sorted], sorted, 1, o, <<>>, tb)
    ELSE Walk([b EXCEPT !.bids = sorted], sorted, 1, o, <<>>, tb)

\* OrderBook.PlaceLimitOrder that takes the side of the book from the wrong
\* branch of o.Bid.
PlaceLimit_OtherSide(b, price, o) ==
    LET isBid == ~b.order[o].Bid
        found == IF isBid THEN b.BidLimits[price] ELSE b.AskLimits[price]
        l     == IF found = Nil THEN Len(b.limit) + 1 ELSE found
        b1    == IF found # Nil THEN b
                 ELSE IF isBid
                      THEN [b EXCEPT !.limit = Append(@, NewLimit(price)),
                                     !.bids = Append(@, l),
                                     !.BidLimits[price] = l]
                      ELSE [b EXCEPT !.limit = Append(@, NewLimit(price)),
                                     !.asks = Append(@, l),
                                     !.AskLimits[price] = l]
    IN AddOrder(b1, l, o)

\* OrderBook.PlaceLimitOrder, as a function of the book.
PlaceLimit(b, price, o) ==
    LET isBid == b.order[o].Bid
        found == IF isBid THEN b.BidLimits[price] ELSE b.AskLimits[price]
        l     == IF found = Nil THEN Len(b.limit) + 1 ELSE found
        b1    == IF found # Nil THEN b
                 ELSE IF isBid
                      THEN [b EXCEPT !.limit = Append(@, NewLimit(price)),
                                     !.bids = Append(@, l),
                                     !.BidLimits[price] = l]
                      ELSE [b EXCEPT !.limit = Append(@, NewLimit(price)),
                                     !.asks = Append(@, l),
                                     !.AskLimits[price] = l]
    IN AddOrder(b1, l, o)

----------------------------------------------------------------------------
\* The program: one book, and a caller that makes one call after another.
\* An order is created by NewOrder and handed to the book once; the instant
\* t of its creation is any of Stamps, since the caller may create orders in
\* one sequence and submit them in another.  A panic ends the program.

Init ==
    /\ order = <<>>
    /\ limit = <<>>
    /\ asks = NewOrderBook.asks
    /\ bids = NewOrderBook.bids
    /\ AskLimits = NewOrderBook.AskLimits
    /\ BidLimits = NewOrderBook.BidLimits
    /\ matches = <<>>
    /\ panicked = ""
    /\ budget = MaxOrders

SetBook(b) ==
    /\ order' = b.order
    /\ limit' = b.limit
    /\ asks' = b.asks
    /\ bids' = b.bids
    /\ AskLimits' = b.AskLimits
    /\ BidLimits' = b.BidLimits

\* The orders resident in the levels of sequence s.
Resting(b, s) == UNION {Range(b.limit[s[i]].Orders) : i \in 1..Len(s)}

\* The book with a new order in the heap.
WithOrder(bid, size, t) == [Book EXCEPT !.order = Append(@, NewOrder(bid, size, t))]

\* ob.PlaceLimitOrder(price, NewOrder(bid, size))
PlaceLimitOrder(price, bid, size, t) ==
    /\ panicked = ""
    /\ Len(order) < budget
    /\ SetBook(PlaceLimit(WithOrder(bid, size, t), price, Len(order) + 1))
    /\ matches' = <<>>
    /\ UNCHANGED <<panicked, budget>>

\* ob.PlaceMarketOrder(NewOrder(bid, size)); the order is created as it is
\* submitted, at the later instant (its Timestamp is never read).
PlaceMarketOrder(bid, size) ==
    /\ panicked = ""
    /\ Len(order) < budget
    /\ UNCHANGED budget
    /\ LET b == WithOrder(bid, size, 2)
           o == Len(order) + 1
       IN IF NotEnoughVolume(b, o)
          THEN /\ panicked' = "Not enough volume"
               /\ SetBook(b)
               /\ matches' = <<>>
          ELSE /\ \E sorted \in (IF bid THEN Asks(b) ELSE Bids(b)),
                     tb \in SortedOrders(b.order, Resting(b, IF bid THEN asks ELSE bids)) :
                     LET r == PlaceMarket(b, o, sorted, tb)
                     IN /\ SetBook(r.book)
                        /\ matches' = r.matches
               /\ UNCHANGED panicked

\* Order.CancelOrder(o) for an order the book has seen: limit := o.Limit;
\* limit.DeleteOrder(o).  With a nil limit, DeleteOrder's first read of
\* l.Orders is a nil pointer dereference.
CancelOrder(o) ==
    /\ panicked = ""
    /\ o \in 1..Len(order)
    /\ matches' = <<>>
    /\ UNCHANGED budget
    /\ IF order[o].Limit = Nil
       THEN /\ panicked' = "nil pointer dereference"
            /\ UNCHANGED <<order, limit, asks, bids, AskLimits, BidLimits>>
       ELSE /\ \E tb \in SortedOrders(order, Resting(Book, <<order[o].Limit>>)) :
                  SetBook(DeleteOrder(Book, order[o].Limit, o, tb))
            /\ UNCHANGED panicked

\* Order.CancelOrder(NewOrder(true, 1)): an order that was never placed.
CancelNewOrder ==
    /\ panicked = ""
    /\ Len(order) < budget
    /\ SetBook(WithOrder(TRUE, 1, 2))
    /\ matches' = <<>>
    /\ panicked' = "nil pointer dereference"
    /\ UNCHANGED budget

Next ==
    \/ \E price \in Prices, bid \in BOOLEAN, size \in Sizes, t \in Stamps :
          PlaceLimitOrder(price, bid, size, t)
    \/ \E bid \in BOOLEAN, size \in Sizes : PlaceMarketOrder(bid, size)
    \/ \E o \in 1..MaxOrders : CancelOrder(o)
    \/ CancelNewOrder

Spec == Init /\ [][Next]_vars

\* The same program with a caller that creates one order more and keeps to
\* the lowest price and the first instant: the runs of four orders in which
\* a bid and an ask rest at one price.
InitOnePrice ==
    /\ order = <<>>
    /\ limit = <<>>
    /\ asks = NewOrderBook.asks
    /\ bids = NewOrderBook.bids
    /\ AskLimits = NewOrderBook.AskLimits
    /\ BidLimits = NewOrderBook.BidLimits
    /\ matches = <<>>
    /\ panicked = ""
    /\ budget = MaxOrders + 1

NextOnePrice ==
    \/ \E price \in {p \in Prices : \A q \in Prices : p <= q},
          bid \in BOOLEAN, size \in Sizes, t \in {s \in Stamps : \A u \in Stamps : s <= u} :
          PlaceLimitOrder(price, bid, size, t)
    \/ \E bid \in BOOLEAN, size \in Sizes : PlaceMarketOrder(bid, size)
    \/ \E o \in 1..(MaxOrders + 1) : CancelOrder(o)
    \/ CancelNewOrder

SpecOnePrice == InitOnePrice /\ [][NextOnePrice]_vars

----------------------------------------------------------------------------
\* What the properties below speak of.

\* The sum of the Size fields of the orders of sequence os.
RECURSIVE SumSizes(_, _, _)
SumSizes(ord, os, i) ==
    IF i > Len(os) THEN 0 ELSE ord[os[i]].Size + SumSizes(ord, os, i + 1)

\* The sum of the sizes of the orders resident in the levels of sequence s.
RECURSIVE ResidentVolume(_, _, _, _)
ResidentVolume(ord, lim, s, i) ==
    IF i > Len(s) THEN 0
    ELSE SumSizes(ord, lim[s[i]].Orders, 1) + ResidentVolume(ord, lim, s, i + 1)

\* Sequence os without o, the others as they were.
Without(os, o) ==
    LET Other(x) == x # o IN SelectSeq(os, Other)

\* The order a call creates.
NewId == Len(order) + 1

\* The step is a call that was given a new order.
OrderTaken == Len(order') = NewId

\* The step is the call ob.PlaceMarketOrder(NewOrder(bid, size)).  (The first
\* three conjuncts follow from the last; they spare its evaluation on the
\* steps that add no order, rest one, or add one of the other side.)
MarketStep(bid, size) ==
    /\ Len(order') = Len(order) + 1
    /\ order'[NewId].Limit = Nil
    /\ order'[NewId].Bid = bid
    /\ PlaceMarketOrder(bid, size)

\* The side a market order of the given side trades against, before the call.
Opposite(bid) == IF bid THEN asks ELSE bids

\* The resting order of a Match of a market order of the given side.
RestingOf(m, bid) == IF bid THEN m.Ask ELSE m.Bid

\* C1: every price level's TotalVolume equals the sum of the Size fields of
\* the orders resident in it, after any sequence of calls.
C1_VolumeConservation ==
    \A l \in 1..Len(limit) :
        limit[l].TotalVolume = SumSizes(order, limit[l].Orders, 1)

\* A market order has just partly filled an order that still rests, in a
\* book in which an order was cancelled.
C1_Witness ==
    /\ panicked = ""
    /\ \E i \in 1..Len(matches) :
          /\ matches[i].SizeFilled > 0
          /\ \E o \in {matches[i].Ask, matches[i].Bid} :
                /\ order[o].Limit # Nil
                /\ order[o].Size > 0
                /\ limit[order[o].Limit].TotalVolume = order[o].Size
    /\ \E o \in 1..Len(order) : order[o].Limit = Nil /\ order[o].Size > 0

\* The two representations of one side agree.
InSync(lim, seq, map) ==
    /\ \A i, j \in 1..Len(seq) :
          i # j => seq[i] # seq[j] /\ lim[seq[i]].Price # lim[seq[j]].Price
    /\ \A i \in 1..Len(seq) : map[lim[seq[i]].Price] = seq[i]
    /\ \A p \in Prices :
          map[p] # Nil => map[p] \in Range(seq) /\ lim[map[p]].Price = p

\* C2: on each side a level is in the sequence (once) iff the map holds it
\* under its own price.
C2_MapAndSequenceInSync ==
    /\ InSync(limit, asks, AskLimits)
    /\ InSync(limit, bids, BidLimits)

\* C3: after a successful PlaceMarketOrder, of either side, every level of
\* the opposite side that the fill emptied is gone from the map and the
\* sequence, and the levels that keep orders remain, with their volume.
C3_EmptiedLevelsRemoved ==
    [][\A bid \in BOOLEAN, size \in Sizes :
          (MarketStep(bid, size) /\ panicked' = "") =>
             \A l \in Range(Opposite(bid)) :
                LET seq2 == IF bid THEN asks' ELSE bids'
                    map2 == IF bid THEN AskLimits' ELSE BidLimits'
                IN /\ (limit[l].Orders # <<>> /\ limit'[l].Orders = <<>>) =>
                          /\ l \notin Range(seq2)
                          /\ map2[limit[l].Price] # l
                   /\ limit'[l].Orders # <<>> =>
                          /\ l \in Range(seq2)
                          /\ map2[limit[l].Price] = l
                          /\ limit'[l].TotalVolume =
                                SumSizes(order', limit'[l].Orders, 1)]_vars

\* C4: a market order larger than the volume resting on the opposite side
\* produces no Match and leaves the book, every order and its own size as
\* they were.
C4_RejectedWholesale ==
    [][\A bid \in BOOLEAN, size \in Sizes :
          (/\ MarketStep(bid, size)
           /\ size > ResidentVolume(order, limit, Opposite(bid), 1)) =>
             /\ matches' = <<>>
             /\ limit' = limit
             /\ asks' = asks
             /\ bids' = bids
             /\ AskLimits' = AskLimits
             /\ BidLimits' = BidLimits
             /\ SubSeq(order', 1, Len(order)) = order
             /\ order'[NewId].Size = size]_vars

\* A market order was rejected although the opposite side had volume to
\* fill a part of it.
C4_Witness ==
    /\ panicked = "Not enough volume"
    /\ LET o == Len(order)
       IN ResidentVolume(order, limit, IF order[o].Bid THEN asks ELSE bids, 1) > 0

\* C5: insufficient liquidity is a failure result, not an abort: the
\* rejection of a market order does not end the program.
C5_ShortfallDoesNotHalt ==
    [][\A bid \in BOOLEAN, size \in Sizes :
          (/\ MarketStep(bid, size)
           /\ size > ResidentVolume(order, limit, Opposite(bid), 1)) =>
             panicked' = ""]_vars

\* C6: CancelOrder on an order without a level (never placed, filled or
\* cancelled) is an error result, not an abort, and changes nothing.
C6_CancelNotRestingIsError ==
    [][/\ CancelNewOrder => panicked' = ""
       /\ \A o \in 1..Len(order) :
             (CancelOrder(o) /\ order[o].Limit = Nil) =>
                /\ panicked' = ""
                /\ UNCHANGED <<order, limit, asks, bids, AskLimits, BidLimits>>]_vars

\* C7: cancelling a resting order removes that order from its level, takes
\* its size off TotalVolume and leaves the other orders in their relative
\* order; an order placed afterwards goes behind all of them.
C7_CancelKeepsRelativeOrder ==
    [][/\ \A o \in 1..Len(order) :
             (CancelOrder(o) /\ order[o].Limit # Nil) =>
                LET l == order[o].Limit
                IN /\ limit'[l].Orders = Without(limit[l].Orders, o)
                   /\ limit'[l].TotalVolume = limit[l].TotalVolume - order[o].Size
       /\ \A price \in Prices, bid \in BOOLEAN, size \in Sizes, t \in Stamps :
             PlaceLimitOrder(price, bid, size, t) =>
                LET l == order'[NewId].Limit
                IN l <= Len(limit) =>
                      limit'[l].Orders = Append(limit[l].Orders, NewId)]_vars

\* C8: when CancelOrder removes the last order of a level, the level is
\* removed from the map and the sequence of its side.
C8_CancelRemovesEmptyLevel ==
    [][\A o \in 1..Len(order) :
          (CancelOrder(o) /\ order[o].Limit # Nil) =>
             LET l == order[o].Limit
             IN limit'[l].Orders = <<>> =>
                   /\ l \notin Range(asks') \cup Range(bids')
                   /\ \A p \in Prices : AskLimits'[p] # l /\ BidLimits'[p] # l]_vars

\* In the Matches ms of a market order of the given side, resting order r was
\* filled completely before Match i.
ExhaustedBefore(ord2, ms, bid, r, i) ==
    /\ ord2[r].Size = 0
    /\ \E j \in 1..(i - 1) : RestingOf(ms[j], bid) = r

\* C9: when a market order is filled, no order receives a fill while an
\* order at the same price with an earlier Timestamp has size left.
C9_TimePriority ==
    [][\A bid \in BOOLEAN, size \in Sizes :
          (MarketStep(bid, size) /\ panicked' = "") =>
             \A i \in 1..Len(matches') :
                matches'[i].SizeFilled > 0 =>
                   LET r == RestingOf(matches'[i], bid)
                   IN \A r2 \in Resting(Book, Opposite(bid)) :
                         (/\ limit[order[r2].Limit].Price = matches'[i].Price
                          /\ order[r2].Timestamp < order[r].Timestamp) =>
                            ExhaustedBefore(order', matches', bid, r2, i)]_vars

\* Price p is strictly better than q for a market order of the given side.
Better(bid, p, q) == IF bid THEN p < q ELSE p > q

\* C10: a successful market order takes the levels of the opposite side in
\* best-price order, and produces a Match at a price only when every level
\* at a strictly better price has been exhausted.
C10_PricePriority ==
    [][\A bid \in BOOLEAN, size \in Sizes :
          (MarketStep(bid, size) /\ panicked' = "") =>
             /\ \A i, j \in 1..Len(matches') :
                   i < j => ~Better(bid, matches'[j].Price, matches'[i].Price)
             /\ \A i \in 1..Len(matches') :
                   \A l \in Range(Opposite(bid)) :
                      Better(bid, limit[l].Price, matches'[i].Price) =>
                         \A r \in Range(limit[l].Orders) :
                            ExhaustedBefore(order', matches', bid, r, i)]_vars

\* The sum of the SizeFilled fields of the Matches ms[i], ms[i+1], ...
RECURSIVE SumFilled(_, _)
SumFilled(ms, i) ==
    IF i > Len(ms) THEN 0 ELSE ms[i].SizeFilled + SumFilled(ms, i + 1)

\* The orders that existed before the step are as they were.
OrdersUntouched == SubSeq(order', 1, Len(order)) = order

\* C11: the SizeFilled of the Matches PlaceMarketOrder returns never sum to
\* more than the order's original size, and an order larger than the volume
\* resting on the opposite side executes against nothing: no Match, no size
\* changed, its own size included.
C11_NoOverFill ==
    [][OrderTaken =>
       \A bid \in BOOLEAN, size \in Sizes :
             MarketStep(bid, size) =>
                /\ SumFilled(matches', 1) <= size
                /\ size > ResidentVolume(order, limit, Opposite(bid), 1) =>
                      /\ matches' = <<>>
                      /\ OrdersUntouched
                      /\ order'[NewId].Size = size]_vars

\* A market order has just been filled against two resting orders, the
\* second of which keeps a remainder.
C11_Witness ==
    /\ panicked = ""
    /\ Len(matches) >= 2
    /\ matches[1].SizeFilled > 0
    /\ matches[2].SizeFilled > 0
    /\ \E bid \in BOOLEAN :
          /\ order[RestingOf(matches[2], bid)].Size > 0
          /\ order[RestingOf(matches[2], bid)].Limit # Nil

\* The resting orders whose size the step changed.
Traded == {r \in 1..Len(order) : order'[r].Size # order[r].Size}

\* C12: PlaceMarketOrder stops at the level that fills the incoming order:
\* every Match it returns has SizeFilled > 0, and it returns as many Matches
\* as resting orders traded.
C12_NoSpuriousMatch ==
    [][\A bid \in BOOLEAN, size \in Sizes :
          (MarketStep(bid, size) /\ panicked' = "") =>
             /\ \A i \in 1..Len(matches') : matches'[i].SizeFilled > 0
             /\ Len(matches') = Cardinality(Traded)]_vars

\* The step is the call ob.PlaceLimitOrder(price, NewOrder(bid, size)), the
\* order created at instant t.  (All conjuncts but the last follow from the
\* last; they spare its evaluation on the steps of other calls.)
LimitStep(price, bid, size, t) ==
    /\ Len(order') = Len(order) + 1
    /\ order'[NewId].Limit # Nil
    /\ order'[NewId].Bid = bid
    /\ order'[NewId].Size = size
    /\ order'[NewId].Timestamp = t
    /\ PlaceLimitOrder(price, bid, size, t)

\* The levels of a side: those of its sequence and those of its map.
LevelsOf(seq, map) == (Range(seq) \cup {map[p] : p \in Prices}) \ {Nil}

\* C13: PlaceLimitOrder never crosses the book.  Whatever the price, it
\* returns no Match, leaves every order that existed as it was, leaves the
\* opposite side's sequence, map and levels as they were, and changes no
\* level but the one, at the given price on the order's own side, in which
\* the order now rests.
C13_LimitNeverCrosses ==
    [][OrderTaken =>
       \A price \in Prices, bid \in BOOLEAN, size \in Sizes, t \in Stamps :
             LimitStep(price, bid, size, t) =>
                LET L == order'[NewId].Limit
                IN /\ matches' = <<>>
                   /\ panicked' = ""
                   /\ OrdersUntouched
                   /\ order'[NewId].Size = size
                   /\ IF bid THEN asks' = asks /\ AskLimits' = AskLimits
                             ELSE bids' = bids /\ BidLimits' = BidLimits
                   /\ \A l \in 1..Len(limit) : l # L => limit'[l] = limit[l]
                   /\ L \notin (IF bid THEN LevelsOf(asks', AskLimits')
                                       ELSE LevelsOf(bids', BidLimits'))
                   /\ L \in Range(IF bid THEN bids' ELSE asks')
                   /\ limit'[L].Price = price
                   /\ NewId \in Range(limit'[L].Orders)]_vars

\* The book is crossed by the order placed last: it rests, unmatched, at a
\* price at which an order of the opposite side would trade with it.
C13_Witness ==
    /\ panicked = ""
    /\ matches = <<>>
    /\ Len(order) >= 2
    /\ LET n == Len(order)
       IN /\ order[n].Limit # Nil
          /\ order[n].Size > 0
          /\ \E r \in 1..(n - 1) :
                /\ order[r].Limit # Nil
                /\ order[r].Bid # order[n].Bid
                /\ order[r].Limit \in Range(IF order[r].Bid THEN bids ELSE asks)
                /\ IF order[n].Bid
                   THEN limit[order[n].Limit].Price >= limit[order[r].Limit].Price
                   ELSE limit[order[n].Limit].Price <= limit[order[r].Limit].Price

\* The best price among the levels of sequence seq: the highest of a bid
\* side, the lowest of an ask side.
BestPrice(lim, seq, bid) ==
    CHOOSE p \in {lim[l].Price : l \in Range(seq)} :
        \A l \in Range(seq) : IF bid THEN lim[l].Price <= p ELSE lim[l].Price >= p

\* C14: PlaceLimitOrder(price, o) uses the level the side of o has at that
\* price and creates one, registered in the map and the sequence, only if
\* the side has none; o becomes the last order of that level, o.Limit is
\* that level, the level's TotalVolume grows by o.Size, and the best price
\* of the side is the better of the price and the best price before.  The
\* first order of a side gives a best level at its price with its size as
\* volume and one resting order.
C14_LimitRestsAtItsLevel ==
    [][\A price \in Prices, bid \in BOOLEAN, size \in Sizes, t \in Stamps :
          LimitStep(price, bid, size, t) =>
             LET seq      == IF bid THEN bids ELSE asks
                 map      == IF bid THEN BidLimits ELSE AskLimits
                 seq2     == IF bid THEN bids' ELSE asks'
                 map2     == IF bid THEN BidLimits' ELSE AskLimits'
                 L        == order'[NewId].Limit
                 Existing == {l \in LevelsOf(seq, map) : limit[l].Price = price}
                 before   == IF L <= Len(limit) THEN limit[L]
                             ELSE [Price |-> price, Orders |-> <<>>, TotalVolume |-> 0]
             IN /\ IF Existing # {}
                   THEN L \in Existing /\ Len(limit') = Len(limit)
                        /\ seq2 = seq /\ map2 = map
                   ELSE L = Len(limit) + 1 /\ Len(limit') = Len(limit) + 1
                        /\ seq2 = Append(seq, L)
                        /\ map2 = [map EXCEPT ![price] = L]
                /\ limit'[L].Price = price
                /\ limit'[L].Orders = Append(before.Orders, NewId)
                /\ limit'[L].TotalVolume = before.TotalVolume + size
                /\ BestPrice(limit', seq2, bid) =
                      IF seq = <<>> \/ Better(bid, BestPrice(limit, seq, bid), price)
                      THEN price ELSE BestPrice(limit, seq, bid)
                /\ seq = <<>> =>
                      /\ seq2 = <<L>>
                      /\ limit'[L].TotalVolume = size
                      /\ Len(limit'[L].Orders) = 1]_vars

\* The incoming order of a Match of a market order of the given side.
IncomingOf(m, bid) == IF bid THEN m.Bid ELSE m.Ask

\* C15: every Match of a market order carries the price of the level the
\* resting order was resident in when the call began, its Bid field is a
\* bid order and its Ask field an ask order, one of them the incoming order
\* and the other the resting one.
C15_MatchPriceAndSides ==
    [][OrderTaken =>
       \A bid \in BOOLEAN, size \in Sizes :
             (MarketStep(bid, size) /\ panicked' = "") =>
                \A i \in 1..Len(matches') :
                   LET m == matches'[i]
                       r == RestingOf(m, bid)
                   IN /\ IncomingOf(m, bid) = NewId
                      /\ r \in 1..Len(order)
                      /\ order[r].Limit # Nil
                      /\ m.Price = limit[order[r].Limit].Price
                      /\ order'[m.Bid].Bid
                      /\ ~order'[m.Ask].Bid]_vars

\* A market ask has just traded at two prices: with a resting bid at the
\* higher one, then with one at the lower one.
C15_Witness ==
    /\ panicked = ""
    /\ Len(matches) = 2
    /\ matches[1].Ask = Len(order)
    /\ matches[2].Ask = Len(order)
    /\ matches[1].SizeFilled > 0
    /\ matches[2].SizeFilled > 0
    /\ matches[1].Price > matches[2].Price

Min(x, y) == IF x <= y THEN x ELSE y

\* What is left of an incoming order of the given size before the pairing
\* that gave Match ms[i].
Remaining(size, ms, i) == size - SumFilled(SubSeq(ms, 1, i - 1), 1)

\* The pairing that gave Match i of the step took min(a.Size, b.Size) from
\* the resting order a and from the incoming order b.
PairingTakesMin(bid, size, i) ==
    LET r == RestingOf(matches'[i], bid)
    IN /\ matches'[i].SizeFilled = Min(order[r].Size, Remaining(size, matches', i))
       /\ order'[r].Size = order[r].Size - matches'[i].SizeFilled
       /\ i = Len(matches') => order'[NewId].Size = Remaining(size, matches', i + 1)

\* C16 as stated: in every pairing SizeFilled is min(a.Size, b.Size), each
\* order's size decreases by it, and exactly one of the two orders is left
\* with size 0.
C16_ExactlyOneReachesZero ==
    [][\A bid \in BOOLEAN, size \in Sizes :
          (MarketStep(bid, size) /\ panicked' = "") =>
             \A i \in 1..Len(matches') :
                /\ PairingTakesMin(bid, size, i)
                /\ (order'[RestingOf(matches'[i], bid)].Size = 0)
                      # (Remaining(size, matches', i + 1) = 0)]_vars

\* C16, amended: in every pairing SizeFilled is min(a.Size, b.Size), each
\* order's size decreases by it, and at least one of the two orders is left
\* with size 0: both when the sizes were equal, else the smaller one only.
C16_SmallerReachesZero ==
    [][OrderTaken =>
       \A bid \in BOOLEAN, size \in Sizes :
             (MarketStep(bid, size) /\ panicked' = "") =>
                \A i \in 1..Len(matches') :
                   LET r == RestingOf(matches'[i], bid)
                       a == order[r].Size
                       b == Remaining(size, matches', i)
                   IN /\ PairingTakesMin(bid, size, i)
                      /\ order'[r].Size = 0 <=> a <= b
                      /\ Remaining(size, matches', i + 1) = 0 <=> b <= a]_vars

\* A market order has just been paired with a resting order of its own
\* size, and both are left with size 0; before that it was paired with a
\* smaller one.
C16_Witness ==
    /\ panicked = ""
    /\ Len(matches) = 2
    /\ matches[1].SizeFilled > 0
    /\ matches[2].SizeFilled > 0
    /\ order[matches[2].Bid].Size = 0
    /\ order[matches[2].Ask].Size = 0

\* How many times o occurs in sequence os.
Occurrences(os, o) == Cardinality({i \in 1..Len(os) : os[i] = o})

\* C17: between calls no order resident in a level has size 0 and no order
\* has a negative size; an order of size 0 has no level.
C17_NoFilledResident ==
    /\ \A o \in 1..Len(order) : order[o].Size >= 0
    /\ \A o \in 1..Len(order) : order[o].Size = 0 => order[o].Limit = Nil
    /\ \A l \in 1..Len(limit) : \A i \in 1..Len(limit[l].Orders) :
          order[limit[l].Orders[i]].Size > 0

\* A fill has just reduced a resting order to size 0: it has no level and no
\* level holds it, while the level it was in still holds another order.
C17_Witness ==
    /\ panicked = ""
    /\ \E i \in 1..Len(matches), bid \in BOOLEAN :
          LET r == RestingOf(matches[i], bid)
          IN /\ r # Len(order)
             /\ matches[i].SizeFilled > 0
             /\ order[r].Size = 0
             /\ order[r].Limit = Nil
             /\ \A l \in 1..Len(limit) : Occurrences(limit[l].Orders, r) = 0
             /\ \E l \in Range(IF bid THEN asks ELSE bids) :
                   /\ limit[l].Price = matches[i].Price
                   /\ limit[l].Orders # <<>>

\* An order's Limit is level l exactly if l.Orders holds the order, and then
\* once: every order a level holds refers to that level, every order that
\* refers to a level is held by it, and no level holds an order twice.
BackReferences ==
    /\ \A l \in 1..Len(limit) : \A i \in 1..Len(limit[l].Orders) :
          /\ order[limit[l].Orders[i]].Limit = l
          /\ \A j \in 1..(i - 1) : limit[l].Orders[j] # limit[l].Orders[i]
    /\ \A o \in 1..Len(order) :
          order[o].Limit # Nil =>
             \E i \in 1..Len(limit[order[o].Limit].Orders) :
                limit[order[o].Limit].Orders[i] = o

\* The step leaves every order but o as it was.
OthersUntouched(o) ==
    \A x \in 1..Len(order) : x # o => order'[x] = order[x]

\* C18: in every reachable state an order's Limit is level L exactly if the
\* order occurs, once, in L.Orders, so in at most one level; a filled order
\* has a nil Limit, and so has an order after CancelOrder returned, and they
\* occur in no level.  (A step that takes no order and does not panic is a
\* CancelOrder of an order that had a level, and it is CancelOrder(o) only
\* if it leaves every other order as it was.)
C18_BackReferenceConsistency ==
    /\ [](BackReferences /\ \A o \in 1..Len(order) : order[o].Size = 0 => order[o].Limit = Nil)
    /\ [][(Len(order') = Len(order) /\ panicked' = "") =>
          \A o \in 1..Len(order) :
             (order[o].Limit # Nil /\ OthersUntouched(o)) =>
                /\ order'[o].Limit = Nil
                /\ \A l \in 1..Len(limit') : Occurrences(limit'[l].Orders, o) = 0]_vars

\* An order was cancelled while another order of its side rests (the
\* program runs on, so an order without a level that has its size is a
\* cancelled one).
C18_Witness ==
    /\ panicked = ""
    /\ \E o \in 1..Len(order), l \in 1..Len(limit) :
          /\ order[o].Limit = Nil
          /\ order[o].Size > 0
          /\ Len(limit[l].Orders) >= 1
          /\ \A i \in 1..Len(limit[l].Orders) : order[limit[l].Orders[i]].Bid = order[o].Bid

\* C19: a market order that passes the volume check is completely filled:
\* when PlaceMarketOrder returns the order's size is 0, the SizeFilled of the
\* Matches sum to its original size, and the opposite side's total volume,
\* by the TotalVolume fields and by the resident orders' sizes, is less by
\* exactly that size.
C19_CompletelyFilled ==
    [][OrderTaken =>
       \A bid \in BOOLEAN, size \in Sizes :
             (MarketStep(bid, size) /\ panicked' = "") =>
                LET opp2 == IF bid THEN asks' ELSE bids'
                IN /\ order'[NewId].Size = 0
                   /\ SumFilled(matches', 1) = size
                   /\ SumVolume(limit', opp2, 1) = SumVolume(limit, Opposite(bid), 1) - size
                   /\ ResidentVolume(order', limit', opp2, 1)
                         = ResidentVolume(order, limit, Opposite(bid), 1) - size]_vars

\* A market order of the largest size has just been filled completely, at
\* two prices, a part at each.
C19_Witness ==
    /\ panicked = ""
    /\ Len(order) >= 1
    /\ order[Len(order)].Size = 0
    /\ order[Len(order)].Limit = Nil
    /\ Len(matches) = 2
    /\ matches[1].Price # matches[2].Price
    /\ matches[1].SizeFilled > 0
    /\ matches[2].SizeFilled > 0
    /\ SumFilled(matches, 1) = MaxSize

\* C20: PlaceMarketOrder leaves the side of the incoming order as it was:
\* a market bid changes neither the bid map, nor the bid sequence, nor a bid
\* level, nor a bid order, and a market ask nothing of the ask side, also
\* in a book with a bid level and an ask level at one price.
C20_OwnSideUntouched ==
    [][\A bid \in BOOLEAN, size \in Sizes :
          (MarketStep(bid, size) /\ panicked' = "") =>
             /\ IF bid THEN bids' = bids /\ BidLimits' = BidLimits
                       ELSE asks' = asks /\ AskLimits' = AskLimits
             /\ \A l \in (IF bid THEN LevelsOf(bids, BidLimits)
                                 ELSE LevelsOf(asks, AskLimits)) : limit'[l] = limit[l]
             /\ \A o \in 1..Len(order) : order[o].Bid = bid => order'[o] = order[o]]_vars

============================================================================
